---------------------------- MODULE Spec2Model ----------------------------
(***************************************************************************)
(* Elevator Saga controllers (dannycoates/saga, Rust).                     *)
(*                                                                         *)
(*   public/rust/game.rs                   the stream driver loop `run`    *)
(*                                         with read_state/write_commands  *)
(*   examples/rust-elevator-wasm/lib.rs    the embedded controller: tick,  *)
(*                                         get_best_target_floor,          *)
(*                                         get_strategic_position          *)
(*   examples/rust-controller/lib.rs       the component Component::tick   *)
(*                                                                         *)
(* Four specifications share this module:                                  *)
(*   SpecTarget  get_best_target_floor as a pure function of the           *)
(*               controller, one elevator record and the floor slice       *)
(*   SpecWasm    the exported tick called repeatedly by the host           *)
(*   SpecCtl     Component::tick called by the host                        *)
(*   SpecRun     the driver loop `run` over stdin and stdout               *)
(***************************************************************************)
EXTENDS Integers, Sequences, FiniteSets, TLC

VARIABLES
    \* --- the build -------------------------------------------------------
    overflow_checks, \* TRUE: u32 overflow panics; FALSE: it wraps
    \* --- SpecTarget: one call of get_best_target_floor ---------------------
    t_self,          \* the controller the call reads: [tick_count |-> n]
    t_elevator,      \* the elevator record passed in
    t_floors,        \* the floor slice passed in
    t_pc,            \* "call" before the call, "returned" after it
    t_result,        \* what the call returned (or Panic)
    t_gofloor,       \* the floor tick then passes to gofloor, or None
    \* --- SpecWasm: the exported tick ---------------------------------------
    CONTROLLER,      \* static mut CONTROLLER: None or [tick_count |-> n]
    w_elevators,     \* the elevator records of the last tick call
    w_floors,        \* the floor records of the last tick call
    w_targets,       \* target_floor resolved for each elevator in that call
    gofloor_calls,   \* the gofloor(elevator_id, floor_num) calls it made
    trapped,         \* the call panicked
    ticks_done,      \* number of tick calls that returned
    \* --- SpecCtl: Component::tick ------------------------------------------
    c_elevators,     \* the elevators of the last call
    c_floors,        \* the floors of the last call
    go_to_floor_calls, \* the go_to_floor(id, floor) calls it made, in order
    \* --- SpecRun: game.rs, run ---------------------------------------------
    pc,              \* where run is: "read_state", "tick", "write_commands",
                     \* "exit" (leaving the loop), "done"
    stdin,           \* bytes the driver has sent and read_state has not yet
                     \* taken (in the pipe or in the BufReader)
    stdin_closed,    \* the driver closed its end of stdin
    stdout_broken,   \* the driver no longer accepts output: writes fail
    writer_buf,      \* bytes held in the BufWriter
    flushed,         \* bytes flushed to stdout since read_state last returned
    r_elevators,     \* run's `elevators`: those of the frame being served
    r_floors,        \* run's `floors`
    go_calls,        \* go_to_floor calls of the current tick, in call order
    frames_sent,     \* complete state frames the driver has sent
    frames_decoded,  \* read_state calls that returned Ok
    ticks_called,    \* invocations of the tick callback
    frames_written,  \* complete command frames flushed to stdout
    stdout_writes,   \* times the BufWriter handed its bytes to stdout
    read_failed,     \* read_state returned Err
    partial,         \* bytes the failing read_state had consumed
    write_failed     \* write_commands returned Err

target_vars == <<t_self, t_elevator, t_floors, t_pc, t_result, t_gofloor>>
wasm_vars == <<CONTROLLER, w_elevators, w_floors, w_targets, gofloor_calls,
               trapped, ticks_done>>
ctl_vars == <<c_elevators, c_floors, go_to_floor_calls>>
run_vars == <<pc, stdin, stdin_closed, stdout_broken, writer_buf, flushed,
              r_elevators, r_floors, go_calls, frames_sent, frames_decoded,
              ticks_called, frames_written, stdout_writes, read_failed,
              partial, write_failed>>
vars == <<overflow_checks, target_vars, wasm_vars, ctl_vars, run_vars>>

(***************************************************************************)
(* Values.  Option<T> is a sequence of length 0 (None) or 1 (Some), a raw  *)
(* pointer likewise (NULL, or the array it points to).  A function that    *)
(* can panic returns Ret(v) or Panicked.                                   *)
(***************************************************************************)
None == <<>>
Some(x) == <<x>>
NULL == <<>>
PtrTo(array) == <<array>>
Ret(v) == [panic |-> FALSE, value |-> v]
Panicked == [panic |-> TRUE, value |-> 0]

(***************************************************************************)
(* f32 as the code uses it.  A load is compared with the literals 0.8 and  *)
(* 0.1: loads are kept in thousandths (100 is the f32 0.1, 800 the f32     *)
(* 0.8), or NaN, with which every comparison is false.  A score is         *)
(* 1/(dist+1), maybe times 2.0, maybe times 0.3: kept as an exact fraction *)
(* num/den (the distances here are far too small for two different         *)
(* fractions to round to one f32, and x2.0 is exact in binary floating     *)
(* point), or f32::NEG_INFINITY.                                           *)
(***************************************************************************)
F32(m) == [nan |-> FALSE, milli |-> m]
NaN == [nan |-> TRUE, milli |-> 0]
F32Gt(a, b) == ~a.nan /\ ~b.nan /\ a.milli > b.milli
F32Lt(a, b) == ~a.nan /\ ~b.nan /\ a.milli < b.milli

NEG_INFINITY == [neg_inf |-> TRUE, num |-> 0, den |-> 1]
Score(n, d) == [neg_inf |-> FALSE, num |-> n, den |-> d]
ScoreGt(a, b) ==
    /\ ~a.neg_inf
    /\ \/ b.neg_inf
       \/ a.num * b.den > b.num * a.den
ScoreMul(s, n, d) == Score(s.num * n, s.den * d)

Max(a, b) == IF a >= b THEN a ELSE b
Min(a, b) == IF a <= b THEN a ELSE b
SeqsUpTo(S, n) == UNION {[1..k -> S] : k \in 0..n}

(***************************************************************************)
(* rust-elevator-wasm: the controller.                                     *)
(***************************************************************************)
distance(a, b) == IF a > b THEN a - b ELSE b - a

get_destination(elevator) ==
    IF elevator.destination_floor >= 0
    THEN Some(elevator.destination_floor)
    ELSE None

\* The slice the code builds from pressed_floors_ptr / pressed_floors_len.
pressed_floors_of(elevator) ==
    IF elevator.pressed_floors_ptr # NULL /\ elevator.pressed_floors_len > 0
    THEN SubSeq(elevator.pressed_floors_ptr[1], 1, elevator.pressed_floors_len)
    ELSE <<>>

cycle_time == 100

\* The top third with max in the place of min.
top_third_max(num_floors, checks) ==
    IF num_floors = 0
    THEN IF checks THEN Panicked ELSE Ret((2 * num_floors) \div 3)
    ELSE Ret(Max((2 * num_floors) \div 3, num_floors - 1))

\* ((2 * num_floors) / 3).min(num_floors - 1) on u32.  With num_floors = 0
\* the subtraction underflows: a panic under overflow checks, otherwise it
\* wraps to u32::MAX and min returns its left operand.
top_third(num_floors, checks) ==
    IF num_floors = 0
    THEN IF checks THEN Panicked ELSE Ret((2 * num_floors) \div 3)
    ELSE Ret(Min((2 * num_floors) \div 3, num_floors - 1))

\* The positioning with `load <= 0.1` in the place of `load < 0.1`.
get_strategic_position_le(self, elevator, num_floors, checks) ==
    LET current_floor == elevator.current_floor IN
    IF ~F32Gt(elevator.load, F32(100)) /\ ~elevator.load.nan
    THEN LET phase == (self.tick_count + elevator.id * 25) % cycle_time IN
         IF phase < cycle_time \div 3
         THEN Ret(Max(num_floors \div 3, 1))
         ELSE IF phase < (2 * cycle_time) \div 3
              THEN Ret(num_floors \div 2)
              ELSE top_third(num_floors, checks)
    ELSE Ret(current_floor)

get_strategic_position(self, elevator, num_floors, checks) ==
    LET current_floor == elevator.current_floor IN
    IF F32Lt(elevator.load, F32(100))
    THEN LET phase == (self.tick_count + elevator.id * 25) % cycle_time IN
         IF phase < cycle_time \div 3
         THEN Ret(Max(num_floors \div 3, 1))
         ELSE IF phase < (2 * cycle_time) \div 3
              THEN Ret(num_floors \div 2)
              ELSE top_third(num_floors, checks)
    ELSE Ret(current_floor)

\* The closest pressed floor with `<=` in the place of `<`: the last one
\* among equals.
RECURSIVE closest_pressed_le(_, _, _, _, _)
closest_pressed_le(current_floor, pressed, i, best_floor, best_distance) ==
    IF i > Len(pressed)
    THEN best_floor
    ELSE LET floor == pressed[i]
             dist == distance(current_floor, floor)
         IN  IF dist <= best_distance
             THEN closest_pressed_le(current_floor, pressed, i + 1, floor, dist)
             ELSE closest_pressed_le(current_floor, pressed, i + 1, best_floor,
                                     best_distance)

\* Priority 1: the closest pressed floor, the first one among equals.
RECURSIVE closest_pressed(_, _, _, _, _)
closest_pressed(current_floor, pressed, i, best_floor, best_distance) ==
    IF i > Len(pressed)
    THEN best_floor
    ELSE LET floor == pressed[i]
             dist == distance(current_floor, floor)
         IN  IF dist < best_distance
             THEN closest_pressed(current_floor, pressed, i + 1, floor, dist)
             ELSE closest_pressed(current_floor, pressed, i + 1, best_floor,
                                  best_distance)

\* The score with `score = 0.3` in the place of `score *= 0.3`.
call_score_assign(elevator, floor, floor_num) ==
    LET current_floor == elevator.current_floor
        dist == distance(current_floor, floor_num)
        base == Score(1, dist + 1)
        dest == get_destination(elevator)
        moving_up == dest # None /\ dest[1] > current_floor
        bonus == /\ dest # None
                 /\ \/ moving_up /\ floor.up_button # 0
                    \/ ~moving_up /\ floor.down_button # 0
        s1 == IF bonus THEN ScoreMul(base, 2, 1) ELSE base
    IN  IF F32Gt(elevator.load, F32(800)) THEN Score(3, 10) ELSE s1

\* The score of the floor at index floor_num of the slice, for elevator.
call_score(elevator, floor, floor_num) ==
    LET current_floor == elevator.current_floor
        dist == distance(current_floor, floor_num)
        base == Score(1, dist + 1)
        dest == get_destination(elevator)
        moving_up == dest # None /\ dest[1] > current_floor
        bonus == /\ dest # None
                 /\ \/ moving_up /\ floor.up_button # 0
                    \/ ~moving_up /\ floor.down_button # 0
        s1 == IF bonus THEN ScoreMul(base, 2, 1) ELSE base
    IN  IF F32Gt(elevator.load, F32(800)) THEN ScoreMul(s1, 3, 10) ELSE s1

\* The scan with an early exit: the first floor with a call is taken.
RECURSIVE scan_floors_first_call(_, _, _, _, _)
scan_floors_first_call(elevator, floors, idx, best_floor, best_score) ==
    IF idx > Len(floors)
    THEN [best_floor |-> best_floor, best_score |-> best_score]
    ELSE LET floor == floors[idx]
             floor_num == idx - 1
             has_call == floor.up_button # 0 \/ floor.down_button # 0
             score == call_score(elevator, floor, floor_num)
         IN  IF has_call
             THEN [best_floor |-> floor_num, best_score |-> score]
             ELSE scan_floors_first_call(elevator, floors, idx + 1, best_floor,
                                         best_score)

\* Priority 2: the scan over floors.iter().enumerate(); idx is 1-based here,
\* floor_num = idx - 1.  Returns the final best_floor and best_score.
RECURSIVE scan_floors(_, _, _, _, _)
scan_floors(elevator, floors, idx, best_floor, best_score) ==
    IF idx > Len(floors)
    THEN [best_floor |-> best_floor, best_score |-> best_score]
    ELSE LET floor == floors[idx]
             floor_num == idx - 1
             has_call == floor.up_button # 0 \/ floor.down_button # 0
             score == call_score(elevator, floor, floor_num)
         IN  IF has_call /\ ScoreGt(score, best_score)
             THEN scan_floors(elevator, floors, idx + 1, floor_num, score)
             ELSE scan_floors(elevator, floors, idx + 1, best_floor, best_score)

get_best_target_floor(self, elevator, floors, checks) ==
    LET current_floor == elevator.current_floor
        num_floors == Len(floors)
        pressed_floors == pressed_floors_of(elevator)
    IN  IF pressed_floors # <<>>
        THEN Ret(closest_pressed(current_floor, pressed_floors, 2,
                                 pressed_floors[1],
                                 distance(current_floor, pressed_floors[1])))
        ELSE LET r == scan_floors(elevator, floors, 1, current_floor,
                                  NEG_INFINITY)
             IN  IF r.best_score = NEG_INFINITY
                 THEN get_strategic_position(self, elevator, num_floors, checks)
                 ELSE Ret(r.best_floor)

(***************************************************************************)
(* Bounds of the inputs.                                                   *)
(***************************************************************************)
MaxTick == 99          \* tick_count values drawn for idle elevators
MaxId == 3             \* elevator.id values drawn for idle elevators
MaxFloors == 9         \* floor slices without calls have 0..MaxFloors floors
MaxCallFloors == 3     \* floor slices with any buttons have 0..MaxCallFloors
MaxPressedLen == 2     \* pressed_floors arrays have 0..MaxPressedLen entries

Loads == {F32(0), F32(100), F32(900), NaN}
CurrentFloors == {0, 1, 2}
Destinations == {-1, 0, 2}
PressedFloorValues == {0, 2, 5}
LevelKinds == {"index", "gaps"}

\* The level the host gives the floor at 0-based index i: the index itself,
\* or levels with gaps (0, 3, 7, 11, ...).
LevelAt(kind, i) ==
    IF kind = "index" THEN i ELSE IF i = 0 THEN 0 ELSE 4 * i - 1

Elevator(id, current_floor, destination_floor, ptr, len, load) ==
    [id |-> id, current_floor |-> current_floor,
     destination_floor |-> destination_floor,
     pressed_floors_ptr |-> ptr, pressed_floors_len |-> len, load |-> load]

Floor(level, up, down) ==
    [level |-> level, up_button |-> up, down_button |-> down]

\* (pointer, length) pairs the host may pass for the pressed floors.
PressedArgs ==
    {<<NULL, 0>>, <<NULL, 1>>}
    \cup {<<PtrTo(a), Len(a)>> : a \in SeqsUpTo(PressedFloorValues, MaxPressedLen)}

\* Floor slices of n floors none of which has a call.
FloorsNoCalls(kind, n) == [i \in 1..n |-> Floor(LevelAt(kind, i - 1), 0, 0)]

\* Floor slices of up to n floors with any buttons.
FloorsAnyCalls(n) ==
    {[i \in 1..Len(b) |-> Floor(LevelAt(kind, i - 1), b[i][1], b[i][2])] :
        b \in SeqsUpTo({0, 1} \X {0, 1}, n), kind \in LevelKinds}

(***************************************************************************)
(* SpecTarget: get_best_target_floor applied once to drawn arguments.      *)
(***************************************************************************)
WasmIdle ==
    /\ CONTROLLER = None
    /\ w_elevators = <<>>
    /\ w_floors = <<>>
    /\ w_targets = <<>>
    /\ gofloor_calls = <<>>
    /\ trapped = FALSE
    /\ ticks_done = 0

CtlIdle ==
    /\ c_elevators = <<>>
    /\ c_floors = <<>>
    /\ go_to_floor_calls = <<>>

RunIdle ==
    /\ pc = "unused"
    /\ stdin = <<>>
    /\ stdin_closed = FALSE
    /\ stdout_broken = FALSE
    /\ writer_buf = <<>>
    /\ flushed = <<>>
    /\ r_elevators = <<>>
    /\ r_floors = <<>>
    /\ go_calls = <<>>
    /\ frames_sent = 0
    /\ frames_decoded = 0
    /\ ticks_called = 0
    /\ frames_written = 0
    /\ stdout_writes = 0
    /\ read_failed = FALSE
    /\ partial = 0
    /\ write_failed = FALSE

TargetIdle ==
    /\ t_self = [tick_count |-> 0]
    /\ t_elevator = Elevator(0, 0, -1, NULL, 0, F32(0))
    /\ t_floors = <<>>
    /\ t_pc = "unused"
    /\ t_result = Ret(0)
    /\ t_gofloor = None

\* An elevator without pressed floors facing floors without calls, at any
\* tick_count and id.
InitTargetIdle ==
    /\ t_self \in {[tick_count |-> n] : n \in 0..MaxTick}
    /\ t_elevator \in {Elevator(id, cur, -1, NULL, 0, load) :
                          id \in 0..MaxId, cur \in CurrentFloors, load \in Loads}
    /\ t_floors \in {FloorsNoCalls("index", n) : n \in 0..MaxFloors}

\* Any elevator facing any floors, in the first tick.
InitTargetCalls ==
    /\ t_self = [tick_count |-> 0]
    /\ t_elevator \in {Elevator(0, cur, dest, p[1], p[2], load) :
                          cur \in CurrentFloors, dest \in Destinations,
                          p \in PressedArgs, load \in Loads}
    /\ t_floors \in FloorsAnyCalls(MaxCallFloors)

InitTarget ==
    /\ overflow_checks \in BOOLEAN
    /\ InitTargetIdle \/ InitTargetCalls
    /\ t_pc = "call"
    /\ t_result = Ret(0)
    /\ t_gofloor = None
    /\ WasmIdle
    /\ CtlIdle
    /\ RunIdle

\* The body of tick's loop for one elevator: the call, and the gofloor that
\* follows when the target is not the current floor.
CallTarget ==
    /\ t_pc = "call"
    /\ \E r \in {get_best_target_floor(t_self, t_elevator, t_floors,
                                        overflow_checks)} :
          /\ t_result' = r
          /\ t_gofloor' = IF ~r.panic /\ r.value # t_elevator.current_floor
                          THEN Some(r.value)
                          ELSE None
    /\ t_pc' = "returned"
    /\ UNCHANGED <<overflow_checks, t_self, t_elevator, t_floors, wasm_vars,
                   ctl_vars, run_vars>>

NextTarget == CallTarget

SpecTarget == InitTarget /\ [][NextTarget]_vars

(***************************************************************************)
(* SpecWasm: the host calls the exported tick again and again.             *)
(***************************************************************************)
MaxWasmTicks == 2      \* tick calls the host makes
MaxWasmElevators == 2  \* elevators_len is 0..MaxWasmElevators

\* Elevator records the host writes: idle and empty (ids 0 and 3), idle and
\* loaded, moving to its pressed floor, standing at its pressed floor.
WasmElevatorValues ==
    {Elevator(0, 0, -1, NULL, 0, F32(0)),
     Elevator(3, 1, -1, NULL, 0, F32(0)),
     Elevator(1, 1, -1, NULL, 0, F32(900)),
     Elevator(0, 0, 2, PtrTo(<<2>>), 1, F32(900)),
     Elevator(1, 1, -1, PtrTo(<<1>>), 1, F32(0))}

\* Floor slices the host writes: none, three without calls, three with calls.
WasmFloorValues ==
    {<<>>,
     FloorsNoCalls("index", 3),
     <<Floor(0, 0, 1), Floor(1, 0, 0), Floor(2, 1, 0)>>}

new == [tick_count |-> 0]

\* get_controller without the is_none test: a new controller in every tick.
get_controller_fresh(C) == new

get_controller(C) == IF C = None THEN new ELSE C[1]

\* The loop of tick without the comparison with current_floor: gofloor for
\* every elevator.
RECURSIVE tick_loop_unguarded(_, _, _, _, _, _, _)
tick_loop_unguarded(controller, elevators, floors, i, calls, targets, checks) ==
    IF i > Len(elevators)
    THEN [panic |-> FALSE, calls |-> calls, targets |-> targets]
    ELSE LET elevator == elevators[i]
             elevator_id == i - 1
             r == get_best_target_floor(controller, elevator, floors, checks)
         IN  IF r.panic
             THEN [panic |-> TRUE, calls |-> calls, targets |-> targets]
             ELSE tick_loop_unguarded(controller, elevators, floors, i + 1,
                                      Append(calls, <<elevator_id, r.value>>),
                                      Append(targets, r.value), checks)

\* The for loop of tick over elevators.iter().enumerate(), from 1-based
\* position i on; elevator_id = i - 1.  A panic ends the call where it
\* happens, the gofloor calls already made stay made.
RECURSIVE tick_loop(_, _, _, _, _, _, _)
tick_loop(controller, elevators, floors, i, calls, targets, checks) ==
    IF i > Len(elevators)
    THEN [panic |-> FALSE, calls |-> calls, targets |-> targets]
    ELSE LET elevator == elevators[i]
             elevator_id == i - 1
             r == get_best_target_floor(controller, elevator, floors, checks)
         IN  IF r.panic
             THEN [panic |-> TRUE, calls |-> calls, targets |-> targets]
             ELSE LET target_floor == r.value IN
                  tick_loop(controller, elevators, floors, i + 1,
                            IF target_floor # elevator.current_floor
                            THEN Append(calls, <<elevator_id, target_floor>>)
                            ELSE calls,
                            Append(targets, target_floor), checks)

tick(elevators, floors) ==
    /\ ~trapped
    /\ ticks_done < MaxWasmTicks
    /\ \E controller \in {get_controller(CONTROLLER)} :
       \E r \in {tick_loop(controller, elevators, floors, 1, <<>>, <<>>,
                           overflow_checks)} :
          /\ w_elevators' = elevators
          /\ w_floors' = floors
          /\ gofloor_calls' = r.calls
          /\ w_targets' = r.targets
          /\ trapped' = r.panic
          /\ IF r.panic
             THEN /\ CONTROLLER' = Some(controller)
                  /\ ticks_done' = ticks_done
             ELSE /\ CONTROLLER' =
                         Some([controller EXCEPT !.tick_count = @ + 1])
                  /\ ticks_done' = ticks_done + 1
    /\ UNCHANGED <<overflow_checks, target_vars, ctl_vars, run_vars>>

InitWasm ==
    /\ overflow_checks \in BOOLEAN
    /\ WasmIdle
    /\ TargetIdle
    /\ CtlIdle
    /\ RunIdle

WasmElevatorInputs == SeqsUpTo(WasmElevatorValues, MaxWasmElevators)

NextWasm ==
    \E elevators \in WasmElevatorInputs, floors \in WasmFloorValues :
        tick(elevators, floors)

SpecWasm == InitWasm /\ [][NextWasm]_vars

(***************************************************************************)
(* SpecCtl: rust-controller, Component::tick.  go_to_floor is the host's   *)
(* import; the calls are recorded in the order they are made.              *)
(***************************************************************************)
MaxCtlElevators == 2
MaxCtlFloors == 2

CtlElevator(id, destination_floor, pressed_floors) ==
    [id |-> id, destination_floor |-> destination_floor,
     pressed_floors |-> pressed_floors]

CtlFloor(level, up, down) ==
    [level |-> level, up_button |-> up, down_button |-> down]

\* The inner `for floor in &floors`: a go_to_floor for every floor with a
\* button pressed (the `continue` there continues this inner loop).
RECURSIVE ctl_floor_loop(_, _, _, _)
ctl_floor_loop(elevator, floors, j, calls) ==
    IF j > Len(floors)
    THEN calls
    ELSE LET floor == floors[j] IN
         ctl_floor_loop(elevator, floors, j + 1,
                        IF floor.up_button \/ floor.down_button
                        THEN Append(calls, <<elevator.id, floor.level>>)
                        ELSE calls)

\* The outer `for elevator in &elevators`.
RECURSIVE ctl_elevator_loop(_, _, _, _)
ctl_elevator_loop(elevators, floors, i, calls) ==
    IF i > Len(elevators)
    THEN calls
    ELSE LET elevator == elevators[i] IN
         IF elevator.destination_floor = None /\ elevator.pressed_floors # <<>>
         THEN ctl_elevator_loop(elevators, floors, i + 1,
                  Append(calls, <<elevator.id, elevator.pressed_floors[1]>>))
         ELSE IF elevator.destination_floor = None
              THEN ctl_elevator_loop(elevators, floors, i + 1,
                       ctl_floor_loop(elevator, floors, 1, calls))
              ELSE ctl_elevator_loop(elevators, floors, i + 1, calls)

Component_tick(elevators, floors) ==
    /\ c_elevators' = elevators
    /\ c_floors' = floors
    /\ go_to_floor_calls' = ctl_elevator_loop(elevators, floors, 1, <<>>)
    /\ UNCHANGED <<overflow_checks, target_vars, wasm_vars, run_vars>>

\* The host numbers the elevators 0, 1, ... and the floors by level.
CtlElevatorInputs ==
    {[i \in 1..Len(e) |-> CtlElevator(i - 1, e[i][1], e[i][2])] :
        e \in SeqsUpTo({None, Some(1)} \X SeqsUpTo({0, 2}, 1), MaxCtlElevators)}

CtlFloorInputs ==
    {[j \in 1..Len(b) |-> CtlFloor(j - 1, b[j][1], b[j][2])] :
        b \in SeqsUpTo(BOOLEAN \X BOOLEAN, MaxCtlFloors)}

InitCtl ==
    /\ overflow_checks = FALSE
    /\ CtlIdle
    /\ TargetIdle
    /\ WasmIdle
    /\ RunIdle

NextCtl ==
    \E elevators \in CtlElevatorInputs, floors \in CtlFloorInputs :
        Component_tick(elevators, floors)

SpecCtl == InitCtl /\ [][NextCtl]_vars

(***************************************************************************)
(* SpecRun: game.rs.  The driver writes state frames to run's stdin and    *)
(* reads command frames from its stdout; both are byte streams.            *)
(***************************************************************************)
MaxFrames == 2         \* complete state frames the driver sends
MaxAhead == 1          \* of which so many ahead of the tick invocations
MaxRunElevators == 2   \* elevator_count of a state frame is 0..MaxRunElevators
MaxGoCalls == 2        \* go_to_floor calls the tick callback makes per tick

\* x.to_le_bytes() of a u32 or an i32 (two's complement; \div rounds down).
to_le_bytes(x) ==
    <<x % 256, (x \div 256) % 256, (x \div 65536) % 256,
      (x \div 16777216) % 256>>

\* u32::from_le_bytes of the 4 bytes after position pos (counts stay < 2^31).
u32_from_le_bytes(s, pos) ==
    s[pos + 1] + 256 * s[pos + 2] + 65536 * s[pos + 3] + 16777216 * s[pos + 4]

i32_from_le_bytes(s, pos) ==
    s[pos + 1] + 256 * s[pos + 2] + 65536 * s[pos + 3]
    + 16777216 * (IF s[pos + 4] >= 128 THEN s[pos + 4] - 256 ELSE s[pos + 4])

Failed == [ok |-> FALSE, pos |-> 0, val |-> <<>>]
Read(pos, val) == [ok |-> TRUE, pos |-> pos, val |-> val]

\* `for _ in 0..button_count`: n more i32 from position pos of s.
RECURSIVE read_buttons(_, _, _, _)
read_buttons(s, pos, n, pressed_buttons) ==
    IF n = 0
    THEN Read(pos, pressed_buttons)
    ELSE IF pos + 4 > Len(s)
         THEN Failed
         ELSE read_buttons(s, pos + 4, n - 1,
                           Append(pressed_buttons, i32_from_le_bytes(s, pos)))

\* `for id in 0..elevator_count`.
RECURSIVE read_elevators(_, _, _, _, _)
read_elevators(s, pos, id, elevator_count, acc) ==
    IF id = elevator_count
    THEN Read(pos, acc)
    ELSE IF pos + 16 > Len(s)
         THEN Failed
         ELSE LET current_floor == i32_from_le_bytes(s, pos)
                  dest_raw == i32_from_le_bytes(s, pos + 4)
                  destination_floor ==
                      IF dest_raw = -1 THEN None ELSE Some(dest_raw)
                  percent_full == u32_from_le_bytes(s, pos + 8)
                  button_count == u32_from_le_bytes(s, pos + 12)
                  b == read_buttons(s, pos + 16, button_count, <<>>)
              IN  IF ~b.ok
                  THEN Failed
                  ELSE read_elevators(s, b.pos, id + 1, elevator_count,
                           Append(acc,
                               [id |-> id,
                                current_floor_val |-> current_floor,
                                destination_floor_val |-> destination_floor,
                                percent_full_val |-> percent_full,
                                pressed_buttons |-> b.val,
                                commands |-> <<>>]))

\* `for _ in 0..floor_count`.
RECURSIVE read_floors(_, _, _, _)
read_floors(s, pos, n, acc) ==
    IF n = 0
    THEN Read(pos, acc)
    ELSE IF pos + 6 > Len(s)
         THEN Failed
         ELSE read_floors(s, pos + 6, n - 1,
                  Append(acc, [level_val |-> i32_from_le_bytes(s, pos),
                               up |-> s[pos + 5] # 0,
                               down |-> s[pos + 6] # 0]))

\* A read_state that takes a stream ending after the two counts for a frame
\* without elevators and floors.
read_state_lenient(s) ==
    IF Len(s) < 8
    THEN [ok |-> FALSE, elevators |-> <<>>, floors |-> <<>>, used |-> Len(s)]
    ELSE LET elevator_count == u32_from_le_bytes(s, 0)
             floor_count == u32_from_le_bytes(s, 4)
             e == read_elevators(s, 8, 0, elevator_count, <<>>)
             f == IF e.ok THEN read_floors(s, e.pos, floor_count, <<>>)
                  ELSE Failed
         IN  IF f.ok
             THEN [ok |-> TRUE, elevators |-> e.val, floors |-> f.val,
                   used |-> f.pos]
             ELSE [ok |-> TRUE, elevators |-> <<>>, floors |-> <<>>,
                   used |-> Len(s)]

\* read_state on the bytes s that are left before end of stream: Ok with the
\* decoded frame and the number of bytes used, or Err.
read_state(s) ==
    IF Len(s) < 8
    THEN [ok |-> FALSE, elevators |-> <<>>, floors |-> <<>>, used |-> Len(s)]
    ELSE LET elevator_count == u32_from_le_bytes(s, 0)
             floor_count == u32_from_le_bytes(s, 4)
             e == read_elevators(s, 8, 0, elevator_count, <<>>)
             f == IF e.ok THEN read_floors(s, e.pos, floor_count, <<>>)
                  ELSE Failed
         IN  IF f.ok
             THEN [ok |-> TRUE, elevators |-> e.val, floors |-> f.val,
                   used |-> f.pos]
             ELSE [ok |-> FALSE, elevators |-> <<>>, floors |-> <<>>,
                   used |-> Len(s)]

\* Elevator::go_to_floor on the i-th elevator of the slice.
go_to_floor(elevs, i, floor) ==
    [elevs EXCEPT ![i].commands = Append(@, <<elevs[i].id, floor>>)]

RECURSIVE Concat(_)
Concat(seqs) == IF seqs = <<>> THEN <<>> ELSE Head(seqs) \o Concat(Tail(seqs))

\* elevators.iter_mut().flat_map(|e| e.commands.drain(..)).collect()
collect_commands(elevs) == Concat([i \in DOMAIN elevs |-> elevs[i].commands])
drained(elevs) == [i \in DOMAIN elevs |-> [elevs[i] EXCEPT !.commands = <<>>]]

\* A command frame that is left out when there is no command.
command_frame_skips_empty(commands) ==
    IF commands = <<>>
    THEN <<>>
    ELSE to_le_bytes(Len(commands))
         \o Concat([k \in DOMAIN commands |->
                       to_le_bytes(commands[k][1]) \o to_le_bytes(commands[k][2])])

\* The bytes write_commands hands to the writer.
command_frame(commands) ==
    to_le_bytes(Len(commands))
    \o Concat([k \in DOMAIN commands |->
                  to_le_bytes(commands[k][1]) \o to_le_bytes(commands[k][2])])

\* The number of complete command frames in the bytes out, from position pos.
RECURSIVE CommandFrames(_, _)
CommandFrames(out, pos) ==
    IF pos + 4 > Len(out)
    THEN 0
    ELSE LET n == u32_from_le_bytes(out, pos) IN
         IF pos + 4 + 8 * n > Len(out)
         THEN 0
         ELSE 1 + CommandFrames(out, pos + 4 + 8 * n)

\* write_commands without the flush(): the frame stays in the BufWriter.
write_commands_no_flush(buf, commands, broken) ==
    [err |-> FALSE, writer_buf |-> buf \o command_frame(commands),
     flushed |-> <<>>]

\* write_commands: the frame goes into the BufWriter, then flush() hands
\* everything buffered to stdout, or fails and leaves it in the buffer.
write_commands(buf, commands, broken) ==
    LET buffered == buf \o command_frame(commands) IN
    IF broken /\ buffered # <<>>
    THEN [err |-> TRUE, writer_buf |-> buffered, flushed |-> <<>>]
    ELSE [err |-> FALSE, writer_buf |-> <<>>, flushed |-> buffered]

\* --- the driver -----------------------------------------------------------
\* What the driver reports for the elevator with the given id: (current_floor,
\* destination_floor, load bits, pressed floors).  1056964608 is 0.5f32.
RunElevatorAt(id) ==
    IF id % 2 = 0 THEN <<0, -1, 0, <<>>>> ELSE <<-2, 3, 1056964608, <<5, -1>>>>
\* and for the floor at index j: (level, up_button, down_button).
RunFloorAt(j) == <<j - 1, (j + 1) % 2, j % 2>>
\* target floors the tick callback asks for
GoTargets == {-3}

encode_elevator(e) ==
    to_le_bytes(e[1]) \o to_le_bytes(e[2]) \o to_le_bytes(e[3])
    \o to_le_bytes(Len(e[4]))
    \o Concat([k \in DOMAIN e[4] |-> to_le_bytes(e[4][k])])

encode_floor(f) == to_le_bytes(f[1]) \o <<f[2], f[3]>>

encode_state(elevator_count, floor_count) ==
    to_le_bytes(elevator_count) \o to_le_bytes(floor_count)
    \o Concat([i \in 1..elevator_count |-> encode_elevator(RunElevatorAt(i - 1))])
    \o Concat([j \in 1..floor_count |-> encode_floor(RunFloorAt(j - 1))])

\* floor_count of a state frame
RunFloorCounts == {0, 1}

StateFrames ==
    {encode_state(n, m) : n \in 0..MaxRunElevators, m \in RunFloorCounts}

driver_vars == <<stdin, stdin_closed, stdout_broken, frames_sent>>
loop_vars == <<pc, writer_buf, flushed, r_elevators, r_floors, go_calls,
               frames_decoded, ticks_called, frames_written, stdout_writes,
               read_failed, partial, write_failed>>
others == <<overflow_checks, target_vars, wasm_vars, ctl_vars>>

DriverSend ==
    /\ ~stdin_closed
    /\ frames_sent < MaxFrames
    /\ frames_sent - ticks_called < MaxAhead
    /\ \E frame \in StateFrames : stdin' = stdin \o frame
    /\ frames_sent' = frames_sent + 1
    /\ UNCHANGED <<stdin_closed, stdout_broken, loop_vars, others>>

\* The driver dies in the middle of a frame: only k bytes of it arrive.
\* (Taken when run has consumed the frames before it: read_state starts at
\* a frame boundary either way.)
DriverSendTruncated ==
    /\ ~stdin_closed
    /\ stdin = <<>>
    /\ \E frame \in StateFrames : \E k \in 1..(Len(frame) - 1) :
          stdin' = stdin \o SubSeq(frame, 1, k)
    /\ stdin_closed' = TRUE
    /\ UNCHANGED <<frames_sent, stdout_broken, loop_vars, others>>

DriverClose ==
    /\ ~stdin_closed
    /\ stdin_closed' = TRUE
    /\ UNCHANGED <<stdin, stdout_broken, frames_sent, loop_vars, others>>

DriverStopsReading ==
    /\ ~stdout_broken
    /\ stdout_broken' = TRUE
    /\ UNCHANGED <<stdin, stdin_closed, frames_sent, loop_vars, others>>

\* --- run --------------------------------------------------------------------
\* The match on read_state with `continue` in the place of `break`: a failed
\* read is tried again.
ReadState_retries ==
    /\ pc = "read_state"
    /\ \E r \in {read_state(stdin)} :
          /\ r.ok \/ stdin_closed
          /\ stdin' = SubSeq(stdin, r.used + 1, Len(stdin))
          /\ IF r.ok
             THEN /\ r_elevators' = r.elevators
                  /\ r_floors' = r.floors
                  /\ frames_decoded' = frames_decoded + 1
                  /\ pc' = "tick"
                  /\ UNCHANGED <<read_failed, partial>>
             ELSE /\ read_failed' = TRUE
                  /\ partial' = r.used
                  /\ pc' = "read_state"
                  /\ UNCHANGED <<r_elevators, r_floors, frames_decoded>>
    /\ go_calls' = <<>>
    /\ flushed' = <<>>
    /\ UNCHANGED <<stdin_closed, stdout_broken, frames_sent, writer_buf,
                   ticks_called, frames_written, stdout_writes, write_failed,
                   others>>

\* match read_state(&mut reader): blocks until the frame is there or the
\* stream has ended.
ReadState ==
    /\ pc = "read_state"
    /\ \E r \in {read_state(stdin)} :
          /\ r.ok \/ stdin_closed
          /\ stdin' = SubSeq(stdin, r.used + 1, Len(stdin))
          /\ IF r.ok
             THEN /\ r_elevators' = r.elevators
                  /\ r_floors' = r.floors
                  /\ frames_decoded' = frames_decoded + 1
                  /\ pc' = "tick"
                  /\ UNCHANGED <<read_failed, partial>>
             ELSE /\ read_failed' = TRUE
                  /\ partial' = r.used
                  /\ pc' = "exit"
                  /\ UNCHANGED <<r_elevators, r_floors, frames_decoded>>
    /\ go_calls' = <<>>
    /\ flushed' = <<>>
    /\ UNCHANGED <<stdin_closed, stdout_broken, frames_sent, writer_buf,
                   ticks_called, frames_written, stdout_writes, write_failed,
                   others>>

RECURSIVE apply_calls(_, _, _)
apply_calls(elevs, calls, k) ==
    IF k > Len(calls)
    THEN elevs
    ELSE apply_calls(go_to_floor(elevs, calls[k][1], calls[k][2]), calls, k + 1)

\* tick(&mut elevators, &floors): the callback calls go_to_floor on any of
\* the elevators, in any order, any number of times.
Tick ==
    /\ pc = "tick"
    /\ \E calls \in SeqsUpTo((DOMAIN r_elevators) \X GoTargets, MaxGoCalls) :
          /\ r_elevators' = apply_calls(r_elevators, calls, 1)
          /\ go_calls' = [k \in DOMAIN calls |->
                             <<r_elevators[calls[k][1]].id, calls[k][2]>>]
    /\ ticks_called' = ticks_called + 1
    /\ pc' = "write_commands"
    /\ UNCHANGED <<driver_vars, writer_buf, flushed, r_floors, frames_decoded,
                   frames_written, stdout_writes, read_failed, partial,
                   write_failed, others>>

WriteCommands ==
    /\ pc = "write_commands"
    /\ \E w \in {write_commands(writer_buf, collect_commands(r_elevators),
                                stdout_broken)} :
          /\ writer_buf' = w.writer_buf
          /\ flushed' = flushed \o w.flushed
          /\ frames_written' = frames_written + CommandFrames(w.flushed, 0)
          /\ stdout_writes' = stdout_writes
                 + IF w.err \/ w.flushed # <<>> THEN 1 ELSE 0
          /\ write_failed' = w.err
          /\ pc' = IF w.err THEN "exit" ELSE "read_state"
    /\ r_elevators' = drained(r_elevators)
    /\ UNCHANGED <<driver_vars, r_floors, go_calls, frames_decoded,
                   ticks_called, read_failed, partial, others>>

\* Leaving run drops the writer; BufWriter's drop hands what its buffer
\* still holds to stdout once more and ignores the outcome.
Exit ==
    /\ pc = "exit"
    /\ pc' = "done"
    /\ \E out \in {IF stdout_broken THEN <<>> ELSE writer_buf} :
          /\ flushed' = flushed \o out
          /\ frames_written' = frames_written + CommandFrames(out, 0)
    /\ stdout_writes' = stdout_writes + IF writer_buf # <<>> THEN 1 ELSE 0
    /\ writer_buf' = <<>>
    /\ UNCHANGED <<driver_vars, r_elevators, r_floors, go_calls,
                   frames_decoded, ticks_called, read_failed, partial,
                   write_failed, others>>

InitRun ==
    /\ overflow_checks = FALSE
    /\ TargetIdle
    /\ WasmIdle
    /\ CtlIdle
    /\ pc = "read_state"
    /\ stdin = <<>>
    /\ stdin_closed = FALSE
    /\ stdout_broken = FALSE
    /\ writer_buf = <<>>
    /\ flushed = <<>>
    /\ r_elevators = <<>>
    /\ r_floors = <<>>
    /\ go_calls = <<>>
    /\ frames_sent = 0
    /\ frames_decoded = 0
    /\ ticks_called = 0
    /\ frames_written = 0
    /\ stdout_writes = 0
    /\ read_failed = FALSE
    /\ partial = 0
    /\ write_failed = FALSE

NextRun ==
    \/ DriverSend
    \/ DriverSendTruncated
    \/ DriverClose
    \/ DriverStopsReading
    \/ ReadState
    \/ Tick
    \/ WriteCommands
    \/ Exit

SpecRun == InitRun /\ [][NextRun]_vars

\* run is one sequential thread: a read_state that can return returns, the
\* tick callback returns, write_commands returns, and the function returns
\* after its break.  The driver is under no obligation.
SpecRunFair ==
    /\ SpecRun
    /\ WF_vars(ReadState)
    /\ WF_vars(Tick)
    /\ WF_vars(WriteCommands)
    /\ WF_vars(Exit)

(***************************************************************************)
(* Properties.                                                             *)
(***************************************************************************)
AbsDiff(a, b) == IF a >= b THEN a - b ELSE b - a

NoDuplicateElevator(calls) ==
    \A i, j \in DOMAIN calls : i # j => calls[i][1] # calls[j][1]

\* C1: the command frame of tick N is completely written and flushed before
\* any byte of the state frame of tick N+1 is read.  At most one decoded state
\* frame is unanswered at any time; read_state takes bytes from stdin only
\* at the top of the loop, with nothing left in the BufWriter and every
\* decoded frame answered; a command frame reaches stdout only for the one
\* frame that is unanswered; so decoding and flushing strictly alternate.
C1_WriteBeforeNextRead ==
    /\ [](frames_decoded - frames_written \in {0, 1})
    /\ [][Len(stdin') < Len(stdin) =>
             /\ pc = "read_state"
             /\ writer_buf = <<>>
             /\ frames_written = frames_decoded]_vars
    /\ [][frames_written' # frames_written =>
             /\ frames_written' = frames_written + 1
             /\ frames_decoded = frames_written + 1
             /\ frames_decoded' = frames_decoded]_vars

\* C1 witness: the second state frame has been decoded, after the command
\* frame of the first was flushed.
C1_Witness ==
    /\ pc = "tick"
    /\ frames_decoded = 2
    /\ frames_written = 1

\* C2: when read_state fails (end of stream, or a frame cut short, also
\* after its counts), run leaves the loop: tick is invoked and a command
\* frame written only for completely decoded frames, of which there are no
\* more than the driver sent completely.
C2_FailedReadEndsLoop ==
    /\ frames_decoded <= frames_sent
    /\ ticks_called <= frames_decoded
    /\ frames_written <= frames_decoded
    /\ read_failed =>
          /\ pc \in {"exit", "done"}
          /\ ticks_called = frames_decoded
          /\ frames_written = frames_decoded
          /\ writer_buf = <<>>

\* C2 witness: after a complete frame, the stream ended inside the next one,
\* behind its counts; run has ended.
C2_Witness ==
    /\ pc = "done"
    /\ read_failed
    /\ partial > 8
    /\ frames_decoded >= 1

\* C10: while writes succeed, run writes exactly one command frame for each
\* decoded state frame, also when the tick issued no command (a state frame
\* with no elevators and no floors is answered by command_count = 0), and
\* never more command frames than state frames decoded.
C10_OneCommandFramePerStateFrame ==
    /\ frames_written <= frames_decoded
    /\ ~write_failed =>
          frames_written =
              IF pc \in {"tick", "write_commands"} THEN frames_decoded - 1
              ELSE frames_decoded
    /\ (pc = "read_state" /\ frames_decoded >= 1) =>
          /\ Len(flushed) = 4 + 8 * Len(go_calls)
          /\ u32_from_le_bytes(flushed, 0) = Len(go_calls)
          /\ CommandFrames(flushed, 0) = 1
    /\ (pc = "read_state" /\ frames_decoded >= 1 /\ r_elevators = <<>>) =>
          flushed = <<0, 0, 0, 0>>

\* C10 witness: a state frame with elevator_count = 0 and floor_count = 0 was
\* answered by a command frame with command_count = 0.
C10_Witness ==
    /\ pc = "read_state"
    /\ frames_decoded >= 1
    /\ r_elevators = <<>>
    /\ r_floors = <<>>
    /\ flushed = <<0, 0, 0, 0>>

RunStep == ReadState \/ Tick \/ WriteCommands \/ Exit

\* ENABLED RunStep, from the guards of the four actions: read_state returns
\* when a frame is complete or the stream has ended; nothing else blocks.
RunCanStep ==
    \/ pc = "read_state" /\ (read_state(stdin).ok \/ stdin_closed)
    \/ pc = "tick"
    \/ pc = "write_commands"
    \/ pc = "exit"

Remaining ==
    Len(stdin) + CASE pc = "tick" -> 5
                   [] pc = "write_commands" -> 4
                   [] pc = "read_state" -> 3
                   [] pc = "exit" -> 1
                   [] OTHER -> 0

\* C12: once the driver has closed the input stream run eventually is
\* Terminated, and run leaves the loop only with a read_state that failed,
\* on input that holds no complete frame, or with a write_commands that
\* failed: while frames decode and writes succeed it keeps serving.
\* Under the fairness of SpecRunFair the first three conjuncts give
\* stdin_closed ~> pc = "done": with the stream closed a step of run is
\* possible until run has ended, every step of run lowers Remaining, and no
\* step of the driver raises it.
C12_ClosedInputTerminates ==
    /\ [](stdin_closed /\ pc # "done" => RunCanStep)
    /\ [][stdin_closed /\ RunStep => Remaining' < Remaining]_vars
    /\ [][stdin_closed => Remaining' <= Remaining]_vars
    /\ [][(pc # "exit" /\ pc' = "exit") =>
             \/ /\ pc = "read_state"
                /\ ~read_state(stdin).ok
                /\ read_failed'
             \/ /\ pc = "write_commands"
                /\ stdout_broken
                /\ write_failed']_vars
    /\ [][pc' = "done" => pc \in {"exit", "done"}]_vars

\* C12, the termination itself, under SpecRunFair.
C12_EventuallyTerminated == stdin_closed ~> pc = "done"

\* C12 witness: two frames were served, the driver closed the stream at a
\* frame boundary, the next read failed and run has ended.
C12_Witness ==
    /\ pc = "done"
    /\ stdin_closed
    /\ read_failed
    /\ partial = 0
    /\ frames_written = 2

\* The tick counter the next tick will read.
TickCount == IF CONTROLLER = None THEN 0 ELSE CONTROLLER[1].tick_count

\* C13: the tick counter is 0 before the first tick and k after k completed
\* tick calls; a step raises it by one or leaves it, never lowers it; and it
\* is raised after the elevators of the tick were decided: each of them was
\* decided with the count of the ticks completed before.
C13_TickCounterCountsTicks ==
    /\ [](TickCount = ticks_done)
    /\ [][TickCount' = TickCount \/ TickCount' = TickCount + 1]_vars
    /\ [][ticks_done' = ticks_done + 1 =>
             /\ Len(w_targets') = Len(w_elevators')
             /\ \A i \in DOMAIN w_elevators' :
                   Ret(w_targets'[i]) =
                       get_best_target_floor([tick_count |-> ticks_done],
                                             w_elevators'[i], w_floors',
                                             overflow_checks)]_vars

\* C13 witness: two ticks completed, the second with two elevators.
C13_Witness ==
    /\ ticks_done = 2
    /\ TickCount = 2
    /\ Len(w_elevators) = 2

\* C14: the command frame written for a tick holds the go_to_floor calls of
\* that tick, as many and in the order the tick made them, in whatever order
\* the tick callback addressed the elevators.
C14_FrameListsCallsInCallOrder ==
    (pc = "read_state" /\ frames_decoded >= 1) =>
        flushed = command_frame(go_calls)

\* The call returned for an elevator without pressed floors, facing no call.
IdleReturned ==
    /\ t_pc = "returned"
    /\ pressed_floors_of(t_elevator) = <<>>
    /\ \A i \in DOMAIN t_floors :
          t_floors[i].up_button = 0 /\ t_floors[i].down_button = 0

\* C15: for an idle empty elevator (load < 0.1) the target is a function of
\* phase = (tick_counter + 25 * elevator_id) mod 100 and floor_count: the
\* bottom third (floor_count / 3, at least 1) when phase < 33, the middle
\* (floor_count / 2) when 33 <= phase < 67, the top third (2 * floor_count
\* / 3, at most floor_count - 1) otherwise.  Stated for floor_count >= 1.
C15_IdleTargetByPhase ==
    (/\ IdleReturned
     /\ F32Lt(t_elevator.load, F32(100))
     /\ Len(t_floors) >= 1) =>
        LET phase == (t_self.tick_count + 25 * t_elevator.id) % 100
            floor_count == Len(t_floors)
        IN  t_result =
                Ret(IF phase < 33 THEN Max(floor_count \div 3, 1)
                    ELSE IF phase < 67 THEN floor_count \div 2
                    ELSE Min((2 * floor_count) \div 3, floor_count - 1))

\* The call returned for an elevator without pressed floors, facing a call.
ScanReturned ==
    /\ t_pc = "returned"
    /\ pressed_floors_of(t_elevator) = <<>>
    /\ \E i \in DOMAIN t_floors :
          t_floors[i].up_button # 0 \/ t_floors[i].down_button # 0

\* The floor at 1-based position i is the earliest among the floors with a
\* call whose score, under the scoring score(elevator, floor, floor_num), is
\* the greatest.
EarliestBest(score(_, _, _), i) ==
    LET called == {j \in DOMAIN t_floors :
                      t_floors[j].up_button # 0 \/ t_floors[j].down_button # 0}
        sc(j) == score(t_elevator, t_floors[j], j - 1)
    IN  /\ i \in called
        /\ \A j \in called : ~ScoreGt(sc(j), sc(i))
        /\ \A j \in called : j < i => ScoreGt(sc(i), sc(j))

\* The score with the bonus by the sign of destination_floor - current_floor.
SignBonusScore(elevator, floor, floor_num) ==
    LET current_floor == elevator.current_floor
        base == Score(1, distance(current_floor, floor_num) + 1)
        dest == get_destination(elevator)
        bonus == /\ dest # None
                 /\ \/ dest[1] > current_floor /\ floor.up_button # 0
                    \/ dest[1] < current_floor /\ floor.down_button # 0
        s1 == IF bonus THEN ScoreMul(base, 2, 1) ELSE base
    IN  IF F32Gt(elevator.load, F32(800)) THEN ScoreMul(s1, 3, 10) ELSE s1

\* C16: the score of a call is doubled only if the elevator has a
\* destination and the call's direction matches the sign of destination_floor
\* - current_floor; with no destination, or with destination_floor equal to
\* current_floor, no call gets the bonus.  The scan returns the earliest
\* floor that is best under that scoring.
C16_BonusBySignOfDirection ==
    ScanReturned =>
        \E i \in DOMAIN t_floors :
            t_result = Ret(i - 1) /\ EarliestBest(SignBonusScore, i)

\* C17: without pressed floors the scan looks at every floor and returns the
\* earliest floor, in enumeration order, among the floors with a call whose
\* score is the greatest: a later floor wins only with a strictly greater
\* score.
C17_ScanEarliestGreatestScore ==
    ScanReturned =>
        \E i \in DOMAIN t_floors :
            t_result = Ret(i - 1) /\ EarliestBest(call_score, i)

\* C17 witness: three floors, each with a call, the elevator at floor 1
\* without destination: floor 1 beat floor 0 and was kept against floor 2.
C17_Witness ==
    /\ ScanReturned
    /\ Len(t_floors) = 3
    /\ \A i \in DOMAIN t_floors : t_floors[i].up_button # 0
    /\ t_elevator.current_floor = 1
    /\ t_elevator.destination_floor = -1
    /\ t_result = Ret(1)

\* C18: an elevator with load >= 0.1, no pressed floors and no call on any
\* floor holds its floor: the target is current_floor and gofloor is not
\* called for it, at every tick counter value.
C18_LoadedIdleHoldsFloor ==
    (/\ IdleReturned
     /\ ~t_elevator.load.nan
     /\ t_elevator.load.milli >= 100) =>
        /\ t_result = Ret(t_elevator.current_floor)
        /\ t_gofloor = None

\* C18 witness: a loaded elevator at floor 2 of 9, at tick 70, held floor 2.
C18_Witness ==
    /\ IdleReturned
    /\ t_elevator.load = F32(900)
    /\ t_self.tick_count = 70
    /\ Len(t_floors) = 9
    /\ t_elevator.current_floor = 2
    /\ t_result = Ret(2)
    /\ t_gofloor = None

\* C19: with floor_count >= 1 the idle-positioning target of an empty
\* elevator is a floor index, 0 <= target <= floor_count - 1, at every tick
\* counter value and elevator id.
C19_IdleTargetIsAFloor ==
    (/\ IdleReturned
     /\ F32Lt(t_elevator.load, F32(100))
     /\ Len(t_floors) >= 1) =>
        /\ ~t_result.panic
        /\ t_result.value >= 0
        /\ t_result.value <= Len(t_floors) - 1

\* C20: without pressed floors and with a call, the floor the scan chooses
\* does not depend on the load: the same elevator with any other load,
\* above 0.8 or not, facing the same floors, gets the same target.
C20_TargetIndependentOfLoad ==
    ScanReturned =>
        \A load \in Loads :
            get_best_target_floor(t_self, [t_elevator EXCEPT !.load = load],
                                  t_floors, overflow_checks) = t_result

\* C20 witness: an elevator with load 0.9 at floor 2, calls on floors 0 and
\* 2: floor 2 was chosen, as with load 0.
C20_Witness ==
    /\ ScanReturned
    /\ t_elevator.load = F32(900)
    /\ t_elevator.current_floor = 2
    /\ Len(t_floors) = 3
    /\ t_floors[1].up_button # 0
    /\ t_floors[3].down_button # 0
    /\ t_result = Ret(2)
    /\ t_result = get_best_target_floor(t_self,
                       [t_elevator EXCEPT !.load = F32(0)], t_floors,
                       overflow_checks)

\* C3: the commands emitted for one tick hold at most one command per
\* elevator id, in the component (go_to_floor) and in the embedded variant
\* (gofloor).
C3_AtMostOneCommandPerElevator ==
    /\ NoDuplicateElevator(go_to_floor_calls)
    /\ NoDuplicateElevator(gofloor_calls)

\* C4: with pressed floors, get_best_target_floor returns a pressed floor at
\* minimal distance from current_floor, the first such in the sequence,
\* whatever destination_floor and the call buttons are.
C4_ClosestPressedFirst ==
    (t_pc = "returned" /\ pressed_floors_of(t_elevator) # <<>>) =>
        LET p == pressed_floors_of(t_elevator)
            cur == t_elevator.current_floor
        IN  /\ ~t_result.panic
            /\ \E i \in DOMAIN p :
                  /\ p[i] = t_result.value
                  /\ \A j \in DOMAIN p : AbsDiff(cur, p[j]) >= AbsDiff(cur, p[i])
                  /\ \A j \in 1..(i - 1) : AbsDiff(cur, p[j]) > AbsDiff(cur, p[i])

\* C4 witness: at floor 0 with pressed_floors = [5, 2], a destination set and
\* calls on the floors, the call returned 2.
C4_Witness ==
    /\ t_pc = "returned"
    /\ t_elevator.current_floor = 0
    /\ pressed_floors_of(t_elevator) = <<5, 2>>
    /\ t_elevator.destination_floor = 0
    /\ \E i \in DOMAIN t_floors : t_floors[i].up_button # 0
    /\ t_result = Ret(2)

HasCall(floor) == floor.up_button # 0 \/ floor.down_button # 0

\* C5: without pressed floors and with an active call somewhere, the target
\* is the level of a floor that has an active call, whatever levels the
\* enumerated floors have.
C5_TargetIsLevelWithCall ==
    (/\ t_pc = "returned"
     /\ pressed_floors_of(t_elevator) = <<>>
     /\ \E i \in DOMAIN t_floors : HasCall(t_floors[i])) =>
        /\ ~t_result.panic
        /\ \E i \in DOMAIN t_floors :
              HasCall(t_floors[i]) /\ t_floors[i].level = t_result.value

IdleEmptyAt9(phase) ==
    /\ t_pc = "returned"
    /\ Len(t_floors) = 9
    /\ pressed_floors_of(t_elevator) = <<>>
    /\ \A i \in DOMAIN t_floors : ~HasCall(t_floors[i])
    /\ ~t_elevator.load.nan /\ t_elevator.load.milli < 100
    /\ t_elevator.id = 0
    /\ (t_self.tick_count + 25 * t_elevator.id) % 100 = phase

\* C6 as stated: with 9 floors, nothing pressed and no calls, an empty
\* elevator with id 0 targets floor 3 at phase 0, 4 at phase 50, 5 at phase 67.
C6_Original ==
    /\ IdleEmptyAt9(0) => t_result = Ret(3)
    /\ IdleEmptyAt9(50) => t_result = Ret(4)
    /\ IdleEmptyAt9(67) => t_result = Ret(5)

\* C6 amended: ... targets floor 3 at phase 0, 4 at phase 50 and 6 at phase 67
\* (2 * 9 / 3 = 6, below the cap 9 - 1).
C6_IdleTargetsNineFloors ==
    /\ IdleEmptyAt9(0) => t_result = Ret(3)
    /\ IdleEmptyAt9(50) => t_result = Ret(4)
    /\ IdleEmptyAt9(67) => t_result = Ret(6)

\* C6 witness: the call at phase 67 returned.
C6_Witness == IdleEmptyAt9(67) /\ t_result = Ret(6)

CallsFor(calls, elevator_id) == {k \in DOMAIN calls : calls[k][1] = elevator_id}

\* C7: in every tick gofloor is called for an elevator only when its resolved
\* target differs from its current floor, and then with that target.
C7_CommandOnlyWhenTargetDiffers ==
    /\ \A k \in DOMAIN gofloor_calls :
          gofloor_calls[k][1] + 1 \in DOMAIN w_targets
    /\ \A i \in DOMAIN w_targets :
          /\ w_targets[i] = w_elevators[i].current_floor =>
                CallsFor(gofloor_calls, i - 1) = {}
          /\ \A k \in CallsFor(gofloor_calls, i - 1) :
                gofloor_calls[k][2] = w_targets[i]

\* C7 witness: a tick with an elevator whose target is its current floor and
\* another that got a command.
C7_Witness ==
    /\ \E i \in DOMAIN w_targets : w_targets[i] = w_elevators[i].current_floor
    /\ gofloor_calls # <<>>

\* C8: no command is emitted for an elevator whose reported destination_floor
\* already equals the target resolved for it in that tick.
C8_NoCommandWhenAlreadyMoving ==
    /\ \A k \in DOMAIN gofloor_calls :
          w_elevators[gofloor_calls[k][1] + 1].destination_floor
              # gofloor_calls[k][2]
    /\ \A k \in DOMAIN go_to_floor_calls :
          \A i \in DOMAIN c_elevators :
              c_elevators[i].id = go_to_floor_calls[k][1] =>
                  c_elevators[i].destination_floor
                      # Some(go_to_floor_calls[k][2])

\* C9: a tick never fails, and with an empty floor set every elevator without
\* pressed floors gets no command, at every load and tick counter value.
C9_NeverFailsNoCommandWithoutFloors ==
    /\ ~trapped
    /\ w_floors = <<>> =>
          \A i \in DOMAIN w_elevators :
              pressed_floors_of(w_elevators[i]) = <<>> =>
                  CallsFor(gofloor_calls, i - 1) = {}

=============================================================================
